---- MODULE Spec2Model ----
(***************************************************************************)
(* Model of run_ouango_ContigFilter (lib/ouango_ContigFilter/__init__.py): *)
(* parameter validation, download of the assembly, the length filter loop, *)
(* and the upload / report calls that follow it.                           *)
(***************************************************************************)
EXTENDS Integers, Sequences, FiniteSets, TLC

VARIABLES params, pc, error, calls, fasta_file, fasta_content,
          parsed_assembly, good_contigs, n_total, n_remaining, filtered_fasta,
          new_ref, report, new_assembly, report_info, output,
          ws_assemblies, ws_reports, pass, first_pass

vars == <<params, pc, error, calls, fasta_file, fasta_content,
          parsed_assembly, good_contigs, n_total, n_remaining, filtered_fasta,
          new_ref, report, new_assembly, report_info, output,
          ws_assemblies, ws_reports, pass, first_pass>>

(* ------------------------------ bounds -------------------------------- *)
\* largest integer supplied as min_length / max_length
MaxParam == 1
\* largest number of residues of a contig
MaxSeqLen == 2
\* largest number of records in the downloaded assembly
MaxRecords == 3

(* --------------------------- parameter values -------------------------- *)
\* A Python value: kind is its type, n its numeric value, s its text.
IntVal(i) == [kind |-> "int", n |-> i, s |-> ""]
BoolVal(i) == [kind |-> "bool", n |-> i, s |-> ""]
FloatVal(i) == [kind |-> "float", n |-> i, s |-> ""]
StrVal(t) == [kind |-> "str", n |-> 0, s |-> t]

\* the keys the validation loop requires, in the order it tests them
RequiredNames == <<"min_length", "max_length", "assembly_input_ref", "workspace_name">>

Names == {RequiredNames[i] : i \in 1..Len(RequiredNames)}

LengthValues == {IntVal(i) : i \in -1..MaxParam}
                  \cup {BoolVal(1), FloatVal(1), StrVal("10"), StrVal("ten")}

RefValues == {StrVal(""), StrVal("1/fake/3"), IntVal(1)}

WorkspaceValues == {StrVal(""), StrVal("ws")}

ValuesOf(name) == IF name \in {"min_length", "max_length"} THEN LengthValues
                  ELSE IF name = "assembly_input_ref" THEN RefValues
                  ELSE WorkspaceValues

\* every request mapping: any subset of the keys, each with any value
ParamMappings == UNION {{f \in [D -> LengthValues \cup RefValues \cup WorkspaceValues] :
                            \A k \in D : f[k] \in ValuesOf(k)} : D \in SUBSET Names}

(* ------------------------------ records -------------------------------- *)
Residues == {"a"}

SeqsUpTo(S, n) == UNION {[1..k -> S] : k \in 0..n}

\* a SeqRecord: identifier and residue string
Records == [id : {"seq1", "seq2"}, seq : SeqsUpTo(Residues, MaxSeqLen)]

Assemblies == SeqsUpTo(Records, MaxRecords)

(* ------------------------------ validation ----------------------------- *)
\* isinstance(v, int): bool is a subclass of int in Python
isinstance_int(v) == v.kind \in {"int", "bool"}

isinstance_str(v) == v.kind = "str"

\* len(v) of a str
StrLen(v) == IF v.s = "" THEN 0 ELSE 1

NoError == [kind |-> "none", msg |-> <<>>]

ValueError(m) == [kind |-> "ValueError", msg |-> m]

\* FirstMissing naming the key the loop variable holds after the loop
FirstMissingNamesLast(p) ==
    IF \E i \in 1..Len(RequiredNames) : RequiredNames[i] \notin DOMAIN p
    THEN Len(RequiredNames)
    ELSE 0

\* index of the first required key absent from p, 0 when none is absent
FirstMissing(p) ==
    IF \E i \in 1..Len(RequiredNames) : RequiredNames[i] \notin DOMAIN p
    THEN CHOOSE i \in 1..Len(RequiredNames) :
            /\ RequiredNames[i] \notin DOMAIN p
            /\ \A j \in 1..(i - 1) : RequiredNames[j] \in DOMAIN p
    ELSE 0

\* validate without the sign tests on min_length and max_length
validateNoSign(p) ==
    IF FirstMissing(p) # 0
    THEN ValueError(<<"Parameter \"", RequiredNames[FirstMissing(p)], "\" is required but missing">>)
    ELSE IF ~isinstance_str(p["assembly_input_ref"]) \/ StrLen(p["assembly_input_ref"]) = 0
    THEN ValueError(<<"Pass in a valid assembly reference string">>)
    ELSE IF ~isinstance_int(p["min_length"])
    THEN ValueError(<<"Min length must be a non-negative integer">>)
    ELSE IF ~isinstance_int(p["max_length"])
    THEN ValueError(<<"Max length must be a non-negative integer">>)
    ELSE NoError

\* the error the validation block raises for p, NoError when it raises none
validate(p) ==
    IF FirstMissing(p) # 0
    THEN ValueError(<<"Parameter \"", RequiredNames[FirstMissing(p)], "\" is required but missing">>)
    ELSE IF ~isinstance_str(p["assembly_input_ref"]) \/ StrLen(p["assembly_input_ref"]) = 0
    THEN ValueError(<<"Pass in a valid assembly reference string">>)
    ELSE IF ~isinstance_int(p["min_length"]) \/ p["min_length"].n < 0
    THEN ValueError(<<"Min length must be a non-negative integer">>)
    ELSE IF ~isinstance_int(p["max_length"]) \/ p["max_length"].n < 0
    THEN ValueError(<<"Max length must be a non-negative integer">>)
    ELSE NoError

(* ------------------------------ filter loop ---------------------------- *)
\* Keep with an exclusive lower bound
KeepExclusive(record, min_length, max_length) ==
    Len(record.seq) > min_length /\ Len(record.seq) <= max_length

\* Keep with the two comparisons joined by "or"
KeepEither(record, min_length, max_length) ==
    Len(record.seq) >= min_length \/ Len(record.seq) <= max_length

\* the test of the loop body on one record
Keep(record, min_length, max_length) ==
    Len(record.seq) >= min_length /\ Len(record.seq) <= max_length

\* LoopBody inserting the retained record at the front of the list
LoopBodyPrepends(acc, record, min_length, max_length) ==
    IF Keep(record, min_length, max_length)
    THEN [good |-> <<record>> \o acc.good, total |-> acc.total + 1,
          remaining |-> acc.remaining + 1]
    ELSE [good |-> acc.good, total |-> acc.total + 1, remaining |-> acc.remaining]

\* LoopBody comparing the count of records already seen, not the record
\* length, with min_length
LoopBodyByCount(acc, record, min_length, max_length) ==
    IF acc.total >= min_length /\ Len(record.seq) <= max_length
    THEN [good |-> Append(acc.good, record), total |-> acc.total + 1,
          remaining |-> acc.remaining + 1]
    ELSE [good |-> acc.good, total |-> acc.total + 1, remaining |-> acc.remaining]

\* LoopBody with the n_remaining increment outside the if
LoopBodyCountsAll(acc, record, min_length, max_length) ==
    IF Keep(record, min_length, max_length)
    THEN [good |-> Append(acc.good, record), total |-> acc.total + 1,
          remaining |-> acc.remaining + 1]
    ELSE [good |-> acc.good, total |-> acc.total + 1, remaining |-> acc.remaining + 1]

\* one iteration of the loop on accumulator acc = [good, total, remaining]
LoopBody(acc, record, min_length, max_length) ==
    IF Keep(record, min_length, max_length)
    THEN [good |-> Append(acc.good, record), total |-> acc.total + 1,
          remaining |-> acc.remaining + 1]
    ELSE [good |-> acc.good, total |-> acc.total + 1, remaining |-> acc.remaining]

(* ------------------------------- state --------------------------------- *)
NoFile == [path |-> "", assembly_name |-> ""]

NoReport == [ref |-> 0, name |-> 0]

NoOutput == [k \in {} |-> 0]

NoPass == [good |-> <<>>, total |-> 0, remaining |-> 0]

Start(p) ==
    /\ params = p
    /\ error = NoError
    /\ calls = <<>>
    /\ fasta_file = NoFile
    /\ fasta_content = <<>>
    /\ parsed_assembly = <<>>
    /\ good_contigs = <<>>
    /\ n_total = 0
    /\ n_remaining = 0
    /\ filtered_fasta = <<>>
    /\ new_ref = 0
    /\ report = NoReport
    /\ new_assembly = 0
    /\ report_info = NoReport
    /\ output = NoOutput
    /\ ws_assemblies = <<>>
    /\ ws_reports = <<>>
    /\ pass = 1
    /\ first_pass = NoPass

Init ==
    /\ pc = "validate"
    /\ \E p \in ParamMappings : Start(p)

\* lines 30-39: the validation block
Validate ==
    /\ pc = "validate"
    /\ error' = validate(params)
    /\ pc' = IF validate(params) = NoError THEN "fetch" ELSE "failed"
    /\ UNCHANGED <<params, calls, fasta_file, fasta_content, parsed_assembly, good_contigs,
                   n_total, n_remaining, filtered_fasta, new_ref, report,
                   new_assembly, report_info, output, ws_assemblies,
                   ws_reports, pass, first_pass>>

\* an exception raised by a collaborator or by the parser propagates unchanged
Raised(op) == [kind |-> "Exception", msg |-> <<op>>]

\* str(n_remaining), str(n_total) placed in the report text
TextMessage == [remaining |-> n_remaining, total |-> n_total]

\* SeqIO.write: one FASTA entry (header, residues) per record, in list order
FastaEntries(records) == [i \in 1..Len(records) |-> <<records[i].id, records[i].seq>>]

\* lines 46-61: download succeeds; parser and accumulators are set up
FetchOk ==
    /\ pc = "fetch"
    /\ calls' = Append(calls, "get_assembly_as_fasta")
    /\ fasta_file' = [path |-> "assembly.fasta", assembly_name |-> "TestAssembly"]
    /\ \E a \in Assemblies : fasta_content' = a /\ parsed_assembly' = a
    /\ good_contigs' = <<>>
    /\ n_total' = 0
    /\ n_remaining' = 0
    /\ pc' = "loop"
    /\ UNCHANGED <<params, error, filtered_fasta, new_ref, report,
                   new_assembly, report_info, output, ws_assemblies,
                   ws_reports, pass, first_pass>>

\* line 46: the download raises
FetchFail ==
    /\ pc = "fetch"
    /\ calls' = Append(calls, "get_assembly_as_fasta")
    /\ error' = Raised("get_assembly_as_fasta")
    /\ pc' = "failed"
    /\ UNCHANGED <<params, fasta_file, fasta_content, parsed_assembly, good_contigs,
                   n_total, n_remaining, filtered_fasta, new_ref, report,
                   new_assembly, report_info, output, ws_assemblies,
                   ws_reports, pass, first_pass>>

\* lines 62-66: one iteration of the loop over the parsed records
LoopStep ==
    /\ pc = "loop"
    /\ parsed_assembly # <<>>
    /\ LET acc == LoopBody([good |-> good_contigs, total |-> n_total,
                            remaining |-> n_remaining],
                           Head(parsed_assembly),
                           params["min_length"].n, params["max_length"].n)
       IN /\ good_contigs' = acc.good
          /\ n_total' = acc.total
          /\ n_remaining' = acc.remaining
    /\ parsed_assembly' = Tail(parsed_assembly)
    /\ UNCHANGED <<params, pc, error, calls, fasta_file, fasta_content, filtered_fasta,
                   new_ref, report, new_assembly, report_info, output,
                   ws_assemblies, ws_reports, pass, first_pass>>

\* line 62: the parser raises while the next record is read
ParseFail ==
    /\ pc = "loop"
    /\ pass = 1
    /\ error' = Raised("SeqIO.parse")
    /\ pc' = "failed"
    /\ UNCHANGED <<params, calls, fasta_file, fasta_content, parsed_assembly, good_contigs,
                   n_total, n_remaining, filtered_fasta, new_ref, report,
                   new_assembly, report_info, output, ws_assemblies,
                   ws_reports, pass, first_pass>>

\* lines 67-78: the loop is exhausted; counts recorded, filtered.fasta written
LoopExit ==
    /\ pc = "loop"
    /\ pass = 1
    /\ parsed_assembly = <<>>
    /\ output' = [n_total |-> n_total, n_remaining |-> n_remaining]
    /\ filtered_fasta' = FastaEntries(good_contigs)
    /\ pc' = "save1"
    /\ UNCHANGED <<params, error, calls, fasta_file, fasta_content, parsed_assembly,
                   good_contigs, n_total, n_remaining, new_ref, report,
                   new_assembly, report_info, ws_assemblies, ws_reports,
                   pass, first_pass>>

\* the object save_assembly_from_fasta stores, under the reference ref
SavedAssembly(ref) ==
    [ref |-> ref, workspace_name |-> params["workspace_name"],
     assembly_name |-> fasta_file.assembly_name, contigs |-> filtered_fasta]

\* the object kbase_report.create stores for the assembly reference created
CreatedReport(ref, created) ==
    [ref |-> ref, name |-> ref, objects_created |-> <<created>>,
     text_message |-> TextMessage, workspace_name |-> params["workspace_name"]]

\* lines 80-89: first upload succeeds
Save1Ok ==
    /\ pc = "save1"
    /\ calls' = Append(calls, "save_assembly_from_fasta")
    /\ new_ref' = Len(ws_assemblies) + 1
    /\ ws_assemblies' = Append(ws_assemblies, SavedAssembly(Len(ws_assemblies) + 1))
    /\ output' = [n_total |-> n_total, n_remaining |-> n_remaining,
                  filtered_assembly_input_ref |-> Len(ws_assemblies) + 1]
    /\ pc' = "report1"
    /\ UNCHANGED <<params, error, fasta_file, fasta_content, parsed_assembly, good_contigs,
                   n_total, n_remaining, filtered_fasta, report,
                   new_assembly, report_info, ws_reports, pass, first_pass>>

\* line 80: first upload raises
Save1Fail ==
    /\ pc = "save1"
    /\ calls' = Append(calls, "save_assembly_from_fasta")
    /\ error' = Raised("save_assembly_from_fasta")
    /\ pc' = "failed"
    /\ UNCHANGED <<params, fasta_file, fasta_content, parsed_assembly, good_contigs,
                   n_total, n_remaining, filtered_fasta, new_ref, report,
                   new_assembly, report_info, output, ws_assemblies,
                   ws_reports, pass, first_pass>>

\* lines 91-118: first report is created
Report1Ok ==
    /\ pc = "report1"
    /\ calls' = Append(calls, "kbase_report.create")
    /\ ws_reports' = Append(ws_reports, CreatedReport(Len(ws_reports) + 1, new_ref))
    /\ report' = [ref |-> Len(ws_reports) + 1, name |-> Len(ws_reports) + 1]
    /\ output' = [report_ref |-> Len(ws_reports) + 1,
                  report_name |-> Len(ws_reports) + 1,
                  n_total |-> n_total, n_remaining |-> n_remaining,
                  filtered_assembly_input_ref |-> new_ref]
    /\ pc' = "save2"
    /\ UNCHANGED <<params, error, fasta_file, fasta_content, parsed_assembly, good_contigs,
                   n_total, n_remaining, filtered_fasta, new_ref,
                   new_assembly, report_info, ws_assemblies, pass, first_pass>>

\* line 107: first report creation raises
Report1Fail ==
    /\ pc = "report1"
    /\ calls' = Append(calls, "kbase_report.create")
    /\ error' = Raised("kbase_report.create")
    /\ pc' = "failed"
    /\ UNCHANGED <<params, fasta_file, fasta_content, parsed_assembly, good_contigs,
                   n_total, n_remaining, filtered_fasta, new_ref, report,
                   new_assembly, report_info, output, ws_assemblies,
                   ws_reports, pass, first_pass>>

\* lines 122-125: second upload succeeds
Save2Ok ==
    /\ pc = "save2"
    /\ calls' = Append(calls, "save_assembly_from_fasta")
    /\ new_assembly' = Len(ws_assemblies) + 1
    /\ ws_assemblies' = Append(ws_assemblies, SavedAssembly(Len(ws_assemblies) + 1))
    /\ pc' = "report2"
    /\ UNCHANGED <<params, error, fasta_file, fasta_content, parsed_assembly, good_contigs,
                   n_total, n_remaining, filtered_fasta, new_ref, report,
                   report_info, output, ws_reports, pass, first_pass>>

\* line 122: second upload raises
Save2Fail ==
    /\ pc = "save2"
    /\ calls' = Append(calls, "save_assembly_from_fasta")
    /\ error' = Raised("save_assembly_from_fasta")
    /\ pc' = "failed"
    /\ UNCHANGED <<params, fasta_file, fasta_content, parsed_assembly, good_contigs,
                   n_total, n_remaining, filtered_fasta, new_ref, report,
                   new_assembly, report_info, output, ws_assemblies,
                   ws_reports, pass, first_pass>>

\* lines 129-133: second report is created
Report2Ok ==
    /\ pc = "report2"
    /\ calls' = Append(calls, "kbase_report.create")
    /\ ws_reports' = Append(ws_reports, CreatedReport(Len(ws_reports) + 1, new_assembly))
    /\ report_info' = [ref |-> Len(ws_reports) + 1, name |-> Len(ws_reports) + 1]
    /\ pc' = "return"
    /\ UNCHANGED <<params, error, fasta_file, fasta_content, parsed_assembly, good_contigs,
                   n_total, n_remaining, filtered_fasta, new_ref, report,
                   new_assembly, output, ws_assemblies, pass, first_pass>>

\* line 133: second report creation raises
Report2Fail ==
    /\ pc = "report2"
    /\ calls' = Append(calls, "kbase_report.create")
    /\ error' = Raised("kbase_report.create")
    /\ pc' = "failed"
    /\ UNCHANGED <<params, fasta_file, fasta_content, parsed_assembly, good_contigs,
                   n_total, n_remaining, filtered_fasta, new_ref, report,
                   new_assembly, report_info, output, ws_assemblies,
                   ws_reports, pass, first_pass>>

\* Return handing back the dictionary built at lines 112-118
ReturnIntermediate ==
    /\ pc = "return"
    /\ pc' = "done"
    /\ UNCHANGED <<params, error, calls, fasta_file, fasta_content,
                   parsed_assembly, good_contigs, n_total, n_remaining,
                   filtered_fasta, new_ref, report, new_assembly,
                   report_info, output, ws_assemblies, ws_reports, pass,
                   first_pass>>

\* lines 137-145: the result is built and returned
Return ==
    /\ pc = "return"
    /\ output' = [report_name |-> report_info.name,
                  report_ref |-> report_info.ref,
                  assembly_output |-> new_assembly,
                  n_initial_contigs |-> n_total,
                  n_contigs_removed |-> n_total - n_remaining,
                  n_contigs_remaining |-> n_remaining]
    /\ pc' = "done"
    /\ UNCHANGED <<params, error, calls, fasta_file, fasta_content, parsed_assembly,
                   good_contigs, n_total, n_remaining, filtered_fasta,
                   new_ref, report, new_assembly, report_info,
                   ws_assemblies, ws_reports, pass, first_pass>>

\* a second application of the filter: its input is the list the first
\* application retained, its accumulators start afresh (lines 52-61)
Refilter ==
    /\ pc = "loop"
    /\ pass = 1
    /\ parsed_assembly = <<>>
    /\ first_pass' = [good |-> good_contigs, total |-> n_total,
                      remaining |-> n_remaining]
    /\ parsed_assembly' = good_contigs
    /\ good_contigs' = <<>>
    /\ n_total' = 0
    /\ n_remaining' = 0
    /\ pass' = 2
    /\ UNCHANGED <<params, pc, error, calls, fasta_file, fasta_content, filtered_fasta,
                   new_ref, report, new_assembly, report_info, output,
                   ws_assemblies, ws_reports>>

Next ==
    \/ Validate
    \/ FetchOk
    \/ FetchFail
    \/ LoopStep
    \/ ParseFail
    \/ LoopExit
    \/ Save1Ok
    \/ Save1Fail
    \/ Report1Ok
    \/ Report1Fail
    \/ Save2Ok
    \/ Save2Fail
    \/ Report2Ok
    \/ Report2Fail
    \/ Return

Spec == Init /\ [][Next]_vars

NextTwice ==
    \/ Validate
    \/ FetchOk
    \/ LoopStep
    \/ Refilter

\* the filter applied to an assembly and then to what it retained
SpecTwice == Init /\ [][NextTwice]_vars
(* ------------------------------ properties ----------------------------- *)
min_length == params["min_length"].n

max_length == params["max_length"].n

\* the request passed validation and the loop has consumed every record
FilterDone ==
    /\ pass = 1
    /\ pc \in {"loop", "save1", "report1", "save2", "report2", "return", "done"}
    /\ parsed_assembly = <<>>

\* positions of the input records whose length lies in [lo, hi]
InRange(input, lo, hi) ==
    {i \in 1..Len(input) : lo <= Len(input[i].seq) /\ Len(input[i].seq) <= hi}

\* s can be obtained from t by deleting elements
RECURSIVE IsSubsequence(_, _)
IsSubsequence(s, t) ==
    IF s = <<>> THEN TRUE
    ELSE IF t = <<>> THEN FALSE
    ELSE IF Head(s) = Head(t) THEN IsSubsequence(Tail(s), Tail(t))
    ELSE IsSubsequence(s, Tail(t))

\* an integer that is not negative (Python counts a bool as an integer)
NonNegativeInteger(v) == v.kind \in {"int", "bool"} /\ v.n >= 0

NonEmptyString(v) == v.kind = "str" /\ v.s # ""

BadLength(name) == name \in DOMAIN params /\ ~NonNegativeInteger(params[name])

ResultKeys == {"report_name", "report_ref", "assembly_output",
               "n_initial_contigs", "n_contigs_removed", "n_contigs_remaining"}

\* number of positions of the call log that hold op
CallCount(op) == Cardinality({i \in 1..Len(calls) : calls[i] = op})

\* C1: when min_length <= max_length and the loop has consumed the whole
\* input, n_total is the number of input records, n_remaining is the number
\* of input records whose length lies in [min_length, max_length], and every
\* record whose length equals min_length or max_length is among good_contigs.
C1_InclusiveCount ==
    (FilterDone /\ min_length <= max_length) =>
        /\ n_total = Len(fasta_content)
        /\ n_remaining = Cardinality(InRange(fasta_content, min_length, max_length))
        /\ \A i \in 1..Len(fasta_content) :
              Len(fasta_content[i].seq) \in {min_length, max_length} =>
                 \E j \in 1..Len(good_contigs) : good_contigs[j] = fasta_content[i]

C1_Witness ==
    /\ pc = "done"
    /\ min_length < max_length
    /\ \E i, j, k \in 1..Len(fasta_content) :
          /\ Len(fasta_content[i].seq) = min_length
          /\ Len(fasta_content[j].seq) = max_length
          /\ Len(fasta_content[k].seq) > max_length
    /\ n_remaining = 2
    /\ n_total = 3

\* C2: in every state good_contigs is a subsequence of the input records:
\* same records, unmodified, in the input's relative order, none repeated
\* more often than in the input.
C2_Subsequence ==
    pass = 1 => IsSubsequence(good_contigs, fasta_content)

C2_Witness ==
    /\ pc = "done"
    /\ Len(fasta_content) = 3
    /\ Len(good_contigs) = 2
    /\ good_contigs[1] # good_contigs[2]
    /\ good_contigs = <<fasta_content[1], fasta_content[3]>>

\* C3: once validation has run on a request whose min_length or max_length
\* is present but is not a non-negative integer, the run has failed with a
\* ValueError and no collaborator has been called.
C3_BadLengthRejected ==
    (pc # "validate" /\ (BadLength("min_length") \/ BadLength("max_length"))) =>
        /\ pc = "failed"
        /\ error.kind = "ValueError"
        /\ calls = <<>>

C3_Witness ==
    /\ pc = "failed"
    /\ DOMAIN params = Names
    /\ params["min_length"] = IntVal(1)
    /\ params["max_length"] \in {IntVal(-1), StrVal("10")}
    /\ NonEmptyString(params["assembly_input_ref"])
    /\ NonEmptyString(params["workspace_name"])
    /\ error = ValueError(<<"Max length must be a non-negative integer">>)

\* C4: once validation has run on a request that lacks a required key, the
\* run has failed with a ValueError whose message names a key that is absent
\* from the request, and no collaborator has been called.
C4_MissingNamed ==
    (pc # "validate" /\ ~(Names \subseteq DOMAIN params)) =>
        /\ pc = "failed"
        /\ error.kind = "ValueError"
        /\ Len(error.msg) = 3
        /\ error.msg[1] = "Parameter \""
        /\ error.msg[2] \in Names \ DOMAIN params
        /\ error.msg[3] = "\" is required but missing"
        /\ calls = <<>>

C4_Witness ==
    /\ pc = "failed"
    /\ DOMAIN params = {"min_length", "max_length", "workspace_name"}
    /\ params["min_length"] = IntVal(-1)
    /\ error.msg[2] = "assembly_input_ref"

\* C5 as stated: a failed run leaves no saved assembly and no report.
C5_NoPartialState ==
    /\ pc = "failed" => (ws_assemblies = <<>> /\ ws_reports = <<>>)
    /\ pc = "done" => DOMAIN output = ResultKeys

\* the run failed before any upload succeeded: in validation, in the
\* download, in the parser, or in the first save_assembly_from_fasta call
FailedBeforeUpload ==
    /\ pc = "failed"
    /\ \/ error.kind = "ValueError"
       \/ error.msg \in {<<"get_assembly_as_fasta">>, <<"SeqIO.parse">>}
       \/ error.msg = <<"save_assembly_from_fasta">> /\ CallCount("save_assembly_from_fasta") = 1

\* C5 (amended): a completed run returns the full result, whose references
\* are objects present in the workspace; a run that fails in validation,
\* the download, the parser or the first upload leaves no saved assembly
\* and no report; a run that fails in a later call leaves the assemblies
\* and reports already created, the first saved assembly among them.
C5_PartialStateAfterUpload ==
    /\ pc = "done" =>
          /\ DOMAIN output = ResultKeys
          /\ \E i \in 1..Len(ws_assemblies) : ws_assemblies[i].ref = output["assembly_output"]
          /\ \E i \in 1..Len(ws_reports) : ws_reports[i].ref = output["report_ref"]
    /\ FailedBeforeUpload => (ws_assemblies = <<>> /\ ws_reports = <<>>)
    /\ (pc = "failed" /\ ~FailedBeforeUpload) =>
          /\ ws_assemblies # <<>>
          /\ ws_assemblies[1].ref = new_ref

C5_Witness ==
    /\ pc = "failed"
    /\ error.msg = <<"kbase_report.create">>
    /\ Len(ws_assemblies) = 2
    /\ Len(ws_reports) = 1

\* C6: a collaborator is called only when all four request fields are
\* present, min_length and max_length are non-negative integers, and
\* assembly_input_ref and workspace_name are non-empty strings.
C6_AllFieldsValid ==
    calls # <<>> =>
        /\ Names \subseteq DOMAIN params
        /\ NonNegativeInteger(params["min_length"])
        /\ NonNegativeInteger(params["max_length"])
        /\ NonEmptyString(params["assembly_input_ref"])
        /\ NonEmptyString(params["workspace_name"])

\* C7: a request with min_length > max_length, both non-negative integers,
\* is not rejected by validation, and when the loop has consumed the input
\* nothing is retained while n_total is the number of input records.
C7_InvertedBounds ==
    /\ ( /\ pc # "validate"
         /\ Names \subseteq DOMAIN params
         /\ NonNegativeInteger(params["min_length"])
         /\ NonNegativeInteger(params["max_length"])
         /\ NonEmptyString(params["assembly_input_ref"])
         /\ min_length > max_length ) => error.kind # "ValueError"
    /\ (FilterDone /\ min_length > max_length) =>
          /\ n_remaining = 0
          /\ good_contigs = <<>>
          /\ n_total = Len(fasta_content)

C7_Witness ==
    /\ pc = "done"
    /\ min_length > max_length
    /\ Len(fasta_content) = 3
    /\ \E i \in 1..3 : Len(fasta_content[i].seq) >= min_length
    /\ \E i \in 1..3 : Len(fasta_content[i].seq) <= max_length
    /\ output["n_contigs_remaining"] = 0
    /\ output["n_initial_contigs"] = 3

\* C8: when the filter has been applied with the same bounds to the records
\* a first application retained, the second application removed nothing:
\* its n_remaining equals its n_total and it retained the same sequence.
C8_Idempotent ==
    (pass = 2 /\ parsed_assembly = <<>>) =>
        /\ n_remaining = n_total
        /\ n_total = first_pass.remaining
        /\ good_contigs = first_pass.good

C8_Witness ==
    /\ pass = 2
    /\ parsed_assembly = <<>>
    /\ first_pass.total = 3
    /\ first_pass.remaining = 2
    /\ n_total = 2

\* C9: a completed run has made exactly one download, one upload and one
\* report creation, in that order, and the report references the assembly
\* returned as assembly_output.
C9_SinglePass ==
    pc = "done" =>
        /\ calls = <<"get_assembly_as_fasta", "save_assembly_from_fasta", "kbase_report.create">>
        /\ Len(ws_assemblies) = 1
        /\ Len(ws_reports) = 1
        /\ ws_reports[1].objects_created = <<output["assembly_output"]>>

\* C10: after every loop iteration n_total is the number of records
\* consumed and n_remaining = len(good_contigs) <= n_total; the returned
\* counts are n_total, n_total - n_remaining >= 0 and n_remaining, they add
\* up, and all three are 0 for an empty input.
C10_Accounting ==
    /\ pass = 1 =>
          /\ n_total = Len(fasta_content) - Len(parsed_assembly)
          /\ n_remaining = Len(good_contigs)
          /\ n_remaining <= n_total
    /\ pc = "done" =>
          /\ output["n_initial_contigs"] = Len(fasta_content)
          /\ output["n_contigs_remaining"] = Len(good_contigs)
          /\ output["n_contigs_removed"] = Len(fasta_content) - Len(good_contigs)
          /\ output["n_contigs_removed"] >= 0
          /\ output["n_contigs_removed"] + output["n_contigs_remaining"]
                = output["n_initial_contigs"]
          /\ fasta_content = <<>> =>
                /\ output["n_initial_contigs"] = 0
                /\ output["n_contigs_removed"] = 0
                /\ output["n_contigs_remaining"] = 0

C10_Witness ==
    /\ pc = "loop"
    /\ parsed_assembly # <<>>
    /\ n_total = 2
    /\ n_remaining = 1
====
